---- MODULE Spec2Model ----
(***************************************************************************)
(* Model of module/yuzu.py: installation, version detection and install-   *)
(* path management of the emulator.  Strings are TLA+ strings; Python's    *)
(* None is the Opt value None, a Python string s is Some(s).               *)
(***************************************************************************)
EXTENDS Integers, Sequences, FiniteSets, TLC

VARIABLES config, setting, disk, history, fs, running, pc, try_cnt, version,
          branch, yz_name, title, left_by, last, log

vars == <<config, setting, disk, history, fs, running, pc, try_cnt, version,
          branch, yz_name, title, left_by, last, log>>

\* ---------------------------------------------------------------- values

None == [isNone |-> TRUE, s |-> ""]

Some(s) == [isNone |-> FALSE, s |-> s]

\* Python truthiness of an optional string: neither None nor ''.
Truthy(o) == ~o.isNone /\ o.s # ""

\* str.startswith
StartsWith(s, p) == Len(s) >= Len(p) /\ SubSeq(s, 1, Len(p)) = p

\* str.endswith
EndsWith(s, p) == Len(s) >= Len(p) /\ SubSeq(s, Len(s) - Len(p) + 1, Len(s)) = p

\* s[n:]
SliceFrom(s, n) == IF n >= Len(s) THEN "" ELSE SubSeq(s, n + 1, Len(s))

\* ---------------------------------------------------------------- bounds

\* longest asset list of a release
MaxAssets == 2

\* most windows one enumeration returns
MaxWindows == 2

\* the poll loop's iteration cap
MaxTry == 30

\* all sequences over S of length at most n
SeqsUpTo(S, n) == UNION {[1..k -> S] : k \in 0..n}

\* ---------------------------------------------------------------- inputs

\* the process's working directory, against which Path.absolute() resolves
Cwd == "/"

\* Path(p).absolute()
Absolute(p) == IF StartsWith(p, "/") THEN p ELSE Cwd \o p

AbsPaths == {"/a", "/b"}

\* arguments of update_yuzu_path
PathInputs == {"/a", "/b", "b"}

\* arguments of install_yuzu / download_yuzu
TargetVersions == {Some("1.2.3"), Some("1234")}

BranchArgs == {Some("eden"), Some("ea"), Some("mainline")}

detect_exe_list == <<"yuzu.exe", "eden.exe", "suzu.exe", "cemu.exe">>

\* executables an unpacked Eden release holds
PackageExes == {"eden.exe"}

GithubHost == "https://github.com"

MirrorHost == "https://mirror.example"

Asset(n) == [name |-> n, download_url |-> [host |-> GithubHost, path |-> n]]

AssetNames == {"eden.7z", "Windows-Yuzu-EA-1.zip", "Eden-Windows-1.zip",
               "Eden-Linux-1.zip", "Source.tar.xz"}

Assets == {Asset(n) : n \in AssetNames}

NoRelease == [tag_name |-> "", assets |-> <<>>]

\* what the release feed may answer: every asset list up to MaxAssets
AllReleases == {[tag_name |-> t, assets |-> a] :
                    t \in {"", "v1.2.3"}, a \in SeqsUpTo(Assets, MaxAssets)}

\* the release answers the full machine is run against
FewReleases == {NoRelease,
                [tag_name |-> "v1.2.3", assets |-> <<>>],
                [tag_name |-> "v1.2.3",
                 assets |-> <<Asset("Source.tar.xz"), Asset("Eden-Windows-1.zip")>>]}

Prefixes == {"yuzu ", "yuzu Early Access ", "Eden | "}

Titles == {"Eden | 1.2.3", "yuzu Early Access 1234", "yuzu 1234",
           "yuzu ", "yuzu Early Access ", "Eden | ", "Notepad", "yuzu"}

\* what one call of get_all_window_name may return
WindowLists == SeqsUpTo(Titles, MaxWindows)

\* the windows the full machine is run against
FewTitles == {"Eden | 1.2.3", "Eden | ", "Notepad"}

FewWindowLists == SeqsUpTo(FewTitles, MaxWindows)

\* ---------------------------------------------------------------- filesystem

NoEntry == [kind |-> "none", exes |-> {}]

EmptyDir == [kind |-> "dir", exes |-> {}]

\* Path.exists() of a directory-level path
Exists(f, p) == f[p].kind # "none"

\* Path.exists() of dir/name
ExeExists(f, dir, name) == f[dir].kind = "dir" /\ name \in f[dir].exes

\* mutant: the directory is not created
Mkdir_Nothing(f, p) == f

\* Path.mkdir(parents=True, exist_ok=True) on a path that does not exist
Mkdir(f, p) == [f EXCEPT ![p] = EmptyDir]

RECURSIVE FirstExisting(_, _, _, _)
FirstExisting(f, dir, names, i) ==
    IF i > Len(names) THEN "yuzu.exe"
    ELSE IF ExeExists(f, dir, names[i]) THEN names[i]
    ELSE FirstExisting(f, dir, names, i + 1)

\* get_yuzu_exe_path: the name of the executable under the install directory
get_yuzu_exe_path(f, yuzu_path) ==
    LET yz_path == Absolute(yuzu_path) IN
    IF (setting.rename_yuzu_to_cemu \/ ~ExeExists(f, yz_path, "yuzu.exe"))
          /\ ExeExists(f, yz_path, "cemu.exe")
    THEN "cemu.exe"
    ELSE FirstExisting(f, yz_path, detect_exe_list, 1)

\* ---------------------------------------------------------------- release resolver

\* mutant: the name prefixes are not looked at
Matches_AnyArchive(name) == EndsWith(name, ".7z") \/ EndsWith(name, ".zip")

\* the three asset-name patterns of download_yuzu
Matches(name) ==
    \/ EndsWith(name, ".7z")
    \/ StartsWith(name, "Windows-Yuzu-EA-") /\ EndsWith(name, ".zip")
    \/ StartsWith(name, "Eden-Windows-") /\ EndsWith(name, ".zip")

\* module.network.get_github_download_url: the download host is the mirror's
get_github_download_url(u) == [u EXCEPT !.host = MirrorHost]

NoUrl == [host |-> "", path |-> ""]

\* the for loop over release_info.assets
RECURSIVE SelectUrl(_, _)
SelectUrl(assets, i) ==
    IF i > Len(assets) THEN NoUrl
    ELSE IF Matches(assets[i].name) THEN get_github_download_url(assets[i].download_url)
    ELSE SelectUrl(assets, i + 1)

\* mutant: the branch is not checked
DownloadOutcome_AnyBranch(branch_arg, release_info) ==
    IF release_info.tag_name = "" THEN [result |-> "version_not_found", url |-> NoUrl]
    ELSE LET url == SelectUrl(release_info.assets, 1) IN
         IF url = NoUrl THEN [result |-> "no_download_url", url |-> NoUrl]
         ELSE [result |-> "ok", url |-> url]

\* download_yuzu as a function of its inputs: how it ends and what it downloads
DownloadOutcome(branch_arg, release_info) ==
    IF branch_arg # Some("eden") THEN [result |-> "unsupported_branch", url |-> NoUrl]
    ELSE IF release_info.tag_name = "" THEN [result |-> "version_not_found", url |-> NoUrl]
    ELSE LET url == SelectUrl(release_info.assets, 1) IN
         IF url = NoUrl THEN [result |-> "no_download_url", url |-> NoUrl]
         ELSE [result |-> "ok", url |-> url]

\* ---------------------------------------------------------------- state

\* config.YuzuConfig(): the record a path without history starts from
YuzuConfig == [yuzu_path |-> "/a", yuzu_version |-> None,
               yuzu_firmware |-> None, branch |-> None]

\* what the finished call was, how it ended and what it returned
Last(op, result) == [op |-> op, result |-> result, version |-> None,
                     url |-> NoUrl, release |-> NoRelease, title |-> ""]

\* storage.add_yuzu_history: the record is kept under its absolute path
add_yuzu_history(h, c) ==
    LET key == Absolute(c.yuzu_path) IN
    [q \in DOMAIN h \cup {key} |-> IF q = key THEN c ELSE h[q]]

\* An assignment to a field of config.yuzu: the object is the one the history
\* holds under its path, if it holds one.
SetYuzu(c) ==
    /\ config' = c
    /\ history' = IF c.yuzu_path \in DOMAIN history
                  THEN [history EXCEPT ![c.yuzu_path] = c] ELSE history

Init ==
    /\ \E vb \in {<<None, None>>, <<Some("1.2.3"), Some("eden")>>} :
          config = [yuzu_path |-> "/a", yuzu_version |-> vb[1],
                    yuzu_firmware |-> None, branch |-> vb[2]]
    /\ setting \in [rename_yuzu_to_cemu : BOOLEAN]
    /\ disk = config
    /\ history = [q \in {} |-> YuzuConfig]
    /\ \E a \in {NoEntry, [kind |-> "dir", exes |-> {"eden.exe"}]},
          b \in {NoEntry, [kind |-> "file", exes |-> {}]} :
          fs = [q \in AbsPaths |-> IF q = "/a" THEN a ELSE b]
    /\ running = {}
    /\ pc = "idle"
    /\ try_cnt = 0
    /\ version = None
    /\ branch = None
    /\ yz_name = ""
    /\ title = ""
    /\ left_by = ""
    /\ last = Last("none", "none")
    /\ log = <<>>

detect_locals == <<pc, try_cnt, version, branch, yz_name, title, left_by>>

\* ---------------------------------------------------------------- installer

\* download_yuzu(target_version, branch) against the release the feed answers
download_yuzu(target_version, branch_arg, release_info) ==
    LET d == DownloadOutcome(branch_arg, release_info) IN
    /\ pc = "idle"
    /\ last' = [Last("download_yuzu", d.result) EXCEPT
                    !.url = d.url, !.release = release_info]
    /\ log' = IF d.result = "ok" THEN <<"download">> ELSE <<>>
    /\ UNCHANGED <<config, setting, disk, history, fs, running, detect_locals>>

\* os.replace(exe_path, yuzu_path/cemu.exe)
Rename(f, dir, name) ==
    [f EXCEPT ![dir].exes = (@ \ {name}) \cup {"cemu.exe"}]

\* shutil.copytree(tmp_dir, yuzu_path, dirs_exist_ok=True)
CopyTree(f, dir) ==
    [f EXCEPT ![dir] = [kind |-> "dir", exes |-> @.exes \cup PackageExes]]

\* mutant: the target is compared with the firmware version
SameVersion_Firmware(target_version) == target_version = config.yuzu_firmware

\* the same-version test install_yuzu starts with
SameVersion(target_version) == target_version = config.yuzu_version

\* install_yuzu(target_version, branch), with install_eden, unzip_yuzu and
\* copy_back_yuzu_files inlined
install_yuzu(target_version, branch_arg, release_info) ==
    LET d == DownloadOutcome(Some("eden"), release_info)
        yuzu_path == Absolute(config.yuzu_path)
        fs1 == CopyTree(fs, yuzu_path)
        exe == get_yuzu_exe_path(fs1, config.yuzu_path)
        renames == setting.rename_yuzu_to_cemu /\ ExeExists(fs1, yuzu_path, exe)
        fs2 == IF renames THEN Rename(fs1, yuzu_path, exe) ELSE fs1
    IN
    /\ pc = "idle"
    /\ IF SameVersion(target_version) THEN
          /\ last' = Last("install_yuzu", "skip")
          /\ log' = <<>>
          /\ UNCHANGED <<config, disk, history, fs>>
       ELSE IF branch_arg # Some("eden") THEN
          /\ last' = Last("install_yuzu", "unsupported_branch")
          /\ log' = <<>>
          /\ UNCHANGED <<config, disk, history, fs>>
       ELSE IF d.result # "ok" THEN
          /\ last' = [Last("install_yuzu", d.result) EXCEPT !.release = release_info]
          /\ log' = <<>>
          /\ UNCHANGED <<config, disk, history, fs>>
       ELSE IF fs[yuzu_path].kind = "file" THEN
          /\ last' = [Last("install_yuzu", "copy_failed") EXCEPT
                          !.url = d.url, !.release = release_info]
          /\ log' = <<"download", "unzip">>
          /\ UNCHANGED <<config, disk, history, fs>>
       ELSE
          /\ fs' = fs2
          /\ SetYuzu([config EXCEPT !.yuzu_version = target_version,
                                    !.branch = branch_arg])
          /\ disk' = config'
          /\ last' = [Last("install_yuzu", "ok") EXCEPT
                          !.url = d.url, !.release = release_info]
          /\ log' = <<"download", "unzip", "copy", "rmtree">>
                    \o <<"mkdir">>
                    \o (IF renames THEN <<"rename">> ELSE <<>>)
                    \o <<"dump_config", "msvc">>
    /\ UNCHANGED <<setting, running, detect_locals>>

\* update_yuzu_path(new_yuzu_path)
update_yuzu_path(new_yuzu_path) ==
    LET new_path == Absolute(new_yuzu_path)
        fs1 == IF ~Exists(fs, new_path) THEN Mkdir(fs, new_path) ELSE fs
        h1 == add_yuzu_history(history, config)
        cfg == [(IF new_path \in DOMAIN h1 THEN h1[new_path] ELSE YuzuConfig)
                    EXCEPT !.yuzu_path = new_path]
        h2 == IF cfg.yuzu_path \notin DOMAIN h1 THEN add_yuzu_history(h1, cfg)
              ELSE [h1 EXCEPT ![new_path] = cfg]
    IN
    /\ pc = "idle"
    /\ fs' = fs1
    /\ IF new_path = Absolute(config.yuzu_path) THEN
          /\ last' = Last("update_yuzu_path", "same")
          /\ log' = IF fs1 # fs THEN <<"mkdir">> ELSE <<>>
          /\ UNCHANGED <<config, disk, history>>
       ELSE
          /\ config' = cfg
          /\ history' = h2
          /\ disk' = config'
          /\ last' = Last("update_yuzu_path", "ok")
          /\ log' = (IF fs1 # fs THEN <<"mkdir">> ELSE <<>>) \o <<"dump_config">>
    /\ UNCHANGED <<setting, running, detect_locals>>

\* start_yuzu
start_yuzu ==
    LET yz == get_yuzu_exe_path(fs, config.yuzu_path) IN
    /\ pc = "idle"
    /\ IF ExeExists(fs, Absolute(config.yuzu_path), yz) THEN
          /\ running' = running \cup {yz}
          /\ last' = Last("start_yuzu", "ok")
          /\ log' = <<"launch">>
       ELSE
          /\ last' = Last("start_yuzu", "not_exist")
          /\ log' = <<>>
          /\ UNCHANGED running
    /\ UNCHANGED <<config, setting, disk, history, fs, detect_locals>>

\* ---------------------------------------------------------------- version detector

\* the titles the window loop stops at
Recognised(window_name) ==
    StartsWith(window_name, "yuzu ") \/ StartsWith(window_name, "Eden | ")

\* mutant: the early-access version is cut one character early
ParseTitle_ShortOffset(window_name) ==
    IF StartsWith(window_name, "yuzu ") THEN
       IF StartsWith(window_name, "yuzu Early Access ")
       THEN [version |-> Some(SliceFrom(window_name, 17)),
             branch |-> Some("ea"), title |-> window_name]
       ELSE [version |-> Some(SliceFrom(window_name, 5)),
             branch |-> Some("mainline"), title |-> window_name]
    ELSE [version |-> Some(SliceFrom(window_name, 7)),
          branch |-> Some("eden"), title |-> window_name]

\* version and branch taken from a recognised title
ParseTitle(window_name) ==
    IF StartsWith(window_name, "yuzu ") THEN
       IF StartsWith(window_name, "yuzu Early Access ")
       THEN [version |-> Some(SliceFrom(window_name, 18)),
             branch |-> Some("ea"), title |-> window_name]
       ELSE [version |-> Some(SliceFrom(window_name, 5)),
             branch |-> Some("mainline"), title |-> window_name]
    ELSE [version |-> Some(SliceFrom(window_name, 7)),
          branch |-> Some("eden"), title |-> window_name]

\* the body of "for window_name in get_all_window_name()": the locals after it
RECURSIVE ScanWindows(_, _, _)
ScanWindows(windows, i, locals) ==
    IF i > Len(windows) THEN locals
    ELSE IF Recognised(windows[i]) THEN ParseTitle(windows[i])
    ELSE ScanWindows(windows, i + 1, locals)

\* mutant: the iteration cap is not tested
PollGuard_NoCap == ~Truthy(version)

\* mutant: a version found does not end the loop
PollGuard_IgnoresVersion == try_cnt < MaxTry

\* the while condition of the poll loop
PollGuard == try_cnt < MaxTry /\ ~Truthy(version)

\* mutant: running instances are not looked for
DetectStart_NoBusyCheck ==
    LET yz == get_yuzu_exe_path(fs, config.yuzu_path) IN
    /\ pc = "idle"
    /\ IF ~ExeExists(fs, Absolute(config.yuzu_path), yz) THEN
          /\ SetYuzu([config EXCEPT !.yuzu_version = None])
          /\ disk' = config'
          /\ last' = Last("detect_yuzu_version", "not_found")
          /\ log' = <<"dump_config">>
          /\ UNCHANGED <<running, detect_locals>>
       ELSE
          /\ running' = running \cup {yz}
          /\ pc' = "polling"
          /\ try_cnt' = 0
          /\ version' = None
          /\ branch' = None
          /\ yz_name' = yz
          /\ title' = ""
          /\ left_by' = ""
          /\ last' = Last("detect_yuzu_version", "launched")
          /\ log' = <<"launch">>
          /\ UNCHANGED <<config, disk, history>>
    /\ UNCHANGED <<setting, fs>>

\* mutant: the stored version is kept when the executable is missing
DetectStart_KeepsVersion ==
    LET yz == get_yuzu_exe_path(fs, config.yuzu_path) IN
    /\ pc = "idle"
    /\ IF ~ExeExists(fs, Absolute(config.yuzu_path), yz) THEN
          /\ SetYuzu(config)
          /\ disk' = config'
          /\ last' = Last("detect_yuzu_version", "not_found")
          /\ log' = <<"dump_config">>
          /\ UNCHANGED <<running, detect_locals>>
       ELSE IF yz \in running THEN
          /\ last' = Last("detect_yuzu_version", "busy")
          /\ log' = <<>>
          /\ UNCHANGED <<config, disk, history, running, detect_locals>>
       ELSE
          /\ running' = running \cup {yz}
          /\ pc' = "polling"
          /\ try_cnt' = 0
          /\ version' = None
          /\ branch' = None
          /\ yz_name' = yz
          /\ title' = ""
          /\ left_by' = ""
          /\ last' = Last("detect_yuzu_version", "launched")
          /\ log' = <<"launch">>
          /\ UNCHANGED <<config, disk, history>>
    /\ UNCHANGED <<setting, fs>>

\* detect_yuzu_version up to the launch of the emulator
DetectStart ==
    LET yz == get_yuzu_exe_path(fs, config.yuzu_path) IN
    /\ pc = "idle"
    /\ IF ~ExeExists(fs, Absolute(config.yuzu_path), yz) THEN
          /\ SetYuzu([config EXCEPT !.yuzu_version = None])
          /\ disk' = config'
          /\ last' = Last("detect_yuzu_version", "not_found")
          /\ log' = <<"dump_config">>
          /\ UNCHANGED <<running, detect_locals>>
       ELSE IF yz \in running THEN
          /\ last' = Last("detect_yuzu_version", "busy")
          /\ log' = <<>>
          /\ UNCHANGED <<config, disk, history, running, detect_locals>>
       ELSE
          /\ running' = running \cup {yz}
          /\ pc' = "polling"
          /\ try_cnt' = 0
          /\ version' = None
          /\ branch' = None
          /\ yz_name' = yz
          /\ title' = ""
          /\ left_by' = ""
          /\ last' = Last("detect_yuzu_version", "launched")
          /\ log' = <<"launch">>
          /\ UNCHANGED <<config, disk, history>>
    /\ UNCHANGED <<setting, fs>>

\* one iteration of the poll loop, get_all_window_name returning windows
PollIter(windows) ==
    LET l == ScanWindows(windows, 1,
                         [version |-> version, branch |-> branch, title |-> title]) IN
    /\ pc = "polling"
    /\ PollGuard
    /\ version' = l.version
    /\ branch' = l.branch
    /\ title' = l.title
    /\ try_cnt' = try_cnt + 1
    /\ UNCHANGED <<config, setting, disk, history, fs, running, pc, yz_name, left_by,
                   last, log>>

\* one iteration of the poll loop, get_all_window_name raising: the except
\* clause is entered.  try_cnt is not read after the loop and is cleared.
PollRaise ==
    /\ pc = "polling"
    /\ PollGuard
    /\ pc' = "kill"
    /\ left_by' = "enum_error"
    /\ try_cnt' = 0
    /\ UNCHANGED <<config, setting, disk, history, fs, running, version, branch,
                   yz_name, title, last, log>>

\* the while condition fails: the loop is left with a version or timed out
PollExit ==
    /\ pc = "polling"
    /\ ~PollGuard
    /\ pc' = "kill"
    /\ left_by' = IF Truthy(version) THEN "resolved" ELSE "timed_out"
    /\ try_cnt' = 0
    /\ UNCHANGED <<config, setting, disk, history, fs, running, version, branch,
                   yz_name, title, last, log>>

\* kill_all_instances(yz_path.name)
Kill ==
    /\ pc = "kill"
    /\ running' = running \ {yz_name}
    /\ log' = Append(log, "kill_all_instances")
    /\ pc' = "persist"
    /\ UNCHANGED <<config, setting, disk, history, fs, try_cnt, version, branch,
                   yz_name, title, left_by, last>>

\* mutant: the detected branch is not stored
Persist_NoBranch ==
    /\ pc = "persist"
    /\ SetYuzu([config EXCEPT !.yuzu_version = version])
    /\ disk' = config'
    /\ last' = [Last("detect_yuzu_version", left_by) EXCEPT
                    !.version = version, !.title = title]
    /\ log' = Append(log, "dump_config")
    /\ pc' = "idle"
    /\ version' = None
    /\ branch' = None
    /\ yz_name' = ""
    /\ title' = ""
    /\ left_by' = ""
    /\ UNCHANGED <<setting, fs, running, try_cnt>>

\* the end of detect_yuzu_version: the configuration is set and persisted
Persist ==
    /\ pc = "persist"
    /\ SetYuzu([config EXCEPT !.yuzu_version = version,
                              !.branch = IF Truthy(version) THEN branch ELSE @])
    /\ disk' = config'
    /\ last' = [Last("detect_yuzu_version", left_by) EXCEPT
                    !.version = version, !.title = title]
    /\ log' = Append(log, "dump_config")
    /\ pc' = "idle"
    /\ version' = None
    /\ branch' = None
    /\ yz_name' = ""
    /\ title' = ""
    /\ left_by' = ""
    /\ UNCHANGED <<setting, fs, running, try_cnt>>

\* ---------------------------------------------------------------- specifications

\* The full machine: every operation, against a few release answers and windows.
Install == \E v \in TargetVersions, b \in BranchArgs, r \in FewReleases :
              install_yuzu(v, b, r)

Download == \E v \in TargetVersions, b \in BranchArgs, r \in FewReleases :
               download_yuzu(v, b, r)

UpdatePath == \E p \in PathInputs : update_yuzu_path(p)

Poll == \E w \in FewWindowLists : PollIter(w)

Next ==
    \/ Install
    \/ Download
    \/ UpdatePath
    \/ start_yuzu
    \/ DetectStart
    \/ Poll
    \/ PollRaise
    \/ PollExit
    \/ Kill
    \/ Persist

Spec == Init /\ [][Next]_vars

\* The detector alone, against every window list.
PollAny == \E w \in WindowLists : PollIter(w)

DetectNext ==
    \/ start_yuzu
    \/ DetectStart
    \/ PollAny
    \/ PollRaise
    \/ PollExit
    \/ Kill
    \/ Persist

DetectSpec == Init /\ [][DetectNext]_vars

\* The release resolver alone, against every release answer.
DownloadAny == \E v \in TargetVersions, b \in BranchArgs, r \in AllReleases :
                  download_yuzu(v, b, r)

ResolverInit ==
    /\ Init
    /\ ~setting.rename_yuzu_to_cemu
    /\ config.yuzu_version = None
    /\ \A q \in AbsPaths : fs[q] = NoEntry

ResolverSpec == ResolverInit /\ [][DownloadAny]_vars

\* ---------------------------------------------------------------- claims

InstallDir == fs[Absolute(config.yuzu_path)]

OtherBranches == BranchArgs \ {Some("eden")}

\* C1 as stated: for every version and every branch other than 'eden', both
\* install_yuzu and download_yuzu end with the unsupported-branch signal,
\* whatever the stored version is.
C1_UnsupportedWhateverStored ==
    [][(pc = "idle" /\ last'.op \in {"install_yuzu", "download_yuzu"}) =>
          \A v \in TargetVersions, b \in OtherBranches, r \in FewReleases :
             (install_yuzu(v, b, r) \/ download_yuzu(v, b, r))
                 => last'.result = "unsupported_branch"]_vars

\* C1 amended: download_yuzu with a branch other than 'eden' always ends with
\* the unsupported-branch signal, and so does install_yuzu unless the target
\* version equals the stored one (then it returns normally, C2).
C1_UnsupportedBranch ==
    [][/\ (pc = "idle" /\ last'.op = "download_yuzu") =>
             \A v \in TargetVersions, b \in OtherBranches, r \in FewReleases :
                download_yuzu(v, b, r) => last'.result = "unsupported_branch"
       /\ (pc = "idle" /\ last'.op = "install_yuzu") =>
             \A v \in TargetVersions, b \in OtherBranches, r \in FewReleases :
                (v # config.yuzu_version /\ install_yuzu(v, b, r))
                    => /\ last'.result = "unsupported_branch"
                       /\ UNCHANGED <<config, disk, fs>>]_vars

C1_Witness == last.op = "install_yuzu" /\ last.result = "unsupported_branch"

\* C2: install_yuzu with the stored version as target is a no-op for every
\* branch: no step runs and configuration, persisted configuration, history,
\* filesystem and processes are unchanged.
C2_SameVersionNoOp ==
    [][(pc = "idle" /\ last'.op = "install_yuzu") =>
          \A v \in TargetVersions, b \in BranchArgs, r \in FewReleases :
             (v = config.yuzu_version /\ install_yuzu(v, b, r))
                 => /\ UNCHANGED <<config, disk, history, fs, running>>
                    /\ last'.result = "skip"
                    /\ log' = <<>>]_vars

C2_Witness == last.op = "install_yuzu" /\ last.result = "skip"

\* C3 as stated: version and branch of the configuration are both set or both
\* absent in every reachable state.
C3_BothOrNeither == config.yuzu_version.isNone <=> config.branch.isNone

\* C3 amended: whenever the stored version is a non-empty string the branch is
\* set; a detection that finds no executable or no version clears or empties
\* the version and leaves the branch as it was.
C3_VersionImpliesBranch == Truthy(config.yuzu_version) => ~config.branch.isNone

C3_Witness ==
    /\ last.op = "detect_yuzu_version"
    /\ last.result = "resolved"
    /\ config.yuzu_path = "/b"

\* C4 as stated: after install_yuzu returns normally (the same-version skip
\* included) and after update_yuzu_path, yuzu_path is an existing directory.
C4_PathIsDirectory ==
    (\/ last.op = "install_yuzu" /\ last.result \in {"ok", "skip"}
     \/ last.op = "update_yuzu_path")
        => InstallDir.kind = "dir"

\* C4 amended: after install_yuzu returns normally without taking the
\* same-version skip, yuzu_path is an existing directory; after
\* update_yuzu_path, yuzu_path exists, and is a directory unless the path
\* given was an existing file.
C4_PathExists ==
    [][(pc = "idle" /\ last'.op \in {"install_yuzu", "update_yuzu_path"}) =>
          /\ \A v \in TargetVersions, b \in BranchArgs, r \in FewReleases :
                (last'.result = "ok" /\ install_yuzu(v, b, r))
                    => fs'[Absolute(config'.yuzu_path)].kind = "dir"
          /\ \A p \in PathInputs :
                update_yuzu_path(p)
                    => /\ Absolute(config'.yuzu_path) = Absolute(p)
                       /\ fs'[Absolute(p)].kind =
                             IF fs[Absolute(p)].kind = "file" THEN "file" ELSE "dir"]_vars

C4_Witness ==
    /\ last.op = "update_yuzu_path"
    /\ log = <<"mkdir", "dump_config">>
    /\ InstallDir.kind = "dir"

\* C5: detection called while the resolved executable exists and a process of
\* its name runs returns no version and changes nothing: no launch, no kill,
\* configuration and persisted configuration untouched.
C5_BusyNoChange ==
    [][(/\ DetectStart
        /\ ExeExists(fs, Absolute(config.yuzu_path),
                     get_yuzu_exe_path(fs, config.yuzu_path))
        /\ get_yuzu_exe_path(fs, config.yuzu_path) \in running)
          => /\ UNCHANGED <<config, disk, history, fs, running, pc>>
             /\ last'.result = "busy"
             /\ last'.version = None
             /\ log' = <<>>]_vars

C5_Witness == last.op = "detect_yuzu_version" /\ last.result = "busy"

\* C6: detection called while the resolved executable does not exist returns
\* no version, clears the stored version and persists it, and launches and
\* kills nothing.
C6_NotFoundClears ==
    [][(/\ DetectStart
        /\ ~ExeExists(fs, Absolute(config.yuzu_path),
                      get_yuzu_exe_path(fs, config.yuzu_path)))
          => /\ config'.yuzu_version = None
             /\ disk' = config'
             /\ UNCHANGED <<running, pc, fs>>
             /\ last'.result = "not_found"
             /\ last'.version = None
             /\ log' = <<"dump_config">>]_vars

C6_Witness ==
    /\ last.op = "detect_yuzu_version"
    /\ last.result = "not_found"
    /\ config.yuzu_version = None
    /\ config.branch = Some("eden")

\* the branch each recognised prefix stands for
PrefixBranch == {<<"Eden | ", "eden">>, <<"yuzu Early Access ", "ea">>,
                 <<"yuzu ", "mainline">>}

Remainders == {"1.2.3", "1234"}

\* C7: from a window title prefix + v, v not empty, the detector takes v as
\* the version and the prefix's branch; these are stored, persisted, returned.
C7_TitleParsed ==
    \A pb \in PrefixBranch, v \in Remainders :
        /\ (pc # "idle" /\ title = pb[1] \o v)
              => version = Some(v) /\ branch = Some(pb[2])
        /\ (last.op = "detect_yuzu_version" /\ last.title = pb[1] \o v)
              => /\ last.result = "resolved"
                 /\ last.version = Some(v)
                 /\ config.yuzu_version = Some(v)
                 /\ config.branch = Some(pb[2])
                 /\ disk = config

C7_Witness ==
    /\ last.op = "detect_yuzu_version"
    /\ last.title = "yuzu Early Access 1234"
    /\ config.branch = Some("ea")

\* the asset names of AssetNames that fit one of the three patterns
MatchingNames == {"eden.7z", "Windows-Yuzu-EA-1.zip", "Eden-Windows-1.zip"}

\* C8: download_yuzu takes the first asset, in list order, whose name fits a
\* pattern and downloads from that asset's URL; without such an asset it ends
\* with the no-download-url signal and downloads nothing.
C8_FirstMatchingAsset ==
    (last.op = "download_yuzu" /\ last.result \in {"ok", "no_download_url"})
        => LET a == last.release.assets
               M == {i \in 1..Len(a) : a[i].name \in MatchingNames}
           IN IF M = {}
              THEN last.result = "no_download_url" /\ log = <<>>
              ELSE LET first == CHOOSE i \in M : \A j \in M : i <= j IN
                   /\ last.result = "ok"
                   /\ last.url.path = a[first].download_url.path
                   /\ log = <<"download">>

C8_Witness ==
    /\ last.op = "download_yuzu"
    /\ last.result = "ok"
    /\ Len(last.release.assets) = 2
    /\ last.release.assets[1].name \notin MatchingNames

\* C9: after the launch the poll loop runs at most 30 iterations, and however
\* it ends (resolved, timed out, enumeration error) the processes of the
\* executable's name are killed first and the configuration persisted after.
C9_BoundedThenKillThenPersist ==
    /\ try_cnt <= 30
    /\ (pc = "polling" /\ try_cnt = 30) => ~ENABLED PollAny /\ ~ENABLED PollRaise
    /\ pc = "polling" => ENABLED (PollAny \/ PollExit)
    /\ pc = "kill" => log = <<"launch">> /\ ENABLED Kill
    /\ pc = "persist" =>
          /\ yz_name \notin running
          /\ log = <<"launch", "kill_all_instances">>
          /\ ENABLED Persist
    /\ (last.op = "detect_yuzu_version"
           /\ last.result \in {"resolved", "timed_out", "enum_error"})
          => /\ log = <<"launch", "kill_all_instances", "dump_config">>
             /\ config.yuzu_version = last.version
             /\ disk = config
             /\ Truthy(last.version) <=> last.result = "resolved"

C9_Witness == last.op = "detect_yuzu_version" /\ last.result = "timed_out"

\* C10 as stated: once a window title starting with a recognised prefix has
\* been seen, the prefix alone included, no further poll iteration and no
\* further window enumeration happens.
C10_AnyPrefixEndsLoop ==
    (pc = "polling" /\ title # "") => ~ENABLED PollAny /\ ~ENABLED PollRaise

\* C10 amended: once a window title made of a recognised prefix and a
\* non-empty remainder has been seen, no further poll iteration and no further
\* window enumeration happens; a title that is the prefix alone ends only the
\* enumeration it was seen in, and polling goes on while iterations are left.
C10_VersionEndsLoop ==
    /\ (pc = "polling" /\ title # "" /\ title \notin Prefixes)
          => ~ENABLED PollAny /\ ~ENABLED PollRaise
    /\ (pc = "polling" /\ title \in Prefixes /\ try_cnt < 30) => ENABLED PollAny

C10_Witness == pc = "polling" /\ title = "Eden | 1.2.3" /\ try_cnt < 30

====
